---- MODULE Spec2Model ----
(***************************************************************************)
(* Model of the socket-aware layout and connection routing of              *)
(* iced_node_editor: the shared SocketLayoutState, Node and Connection     *)
(* layout, Link construction, Endpoint resolution and spline generation.   *)
(***************************************************************************)
EXTENDS Integers, Naturals, Sequences, FiniteSets, TLC

VARIABLES inputs, outputs, done, panicked, zoom, conn, spline, connNode, link,
          last, passNodes, passConns, mesh, nodeWidget, nodeState, shell, app,
          canvas, drag

vars == <<inputs, outputs, done, panicked, zoom, conn, spline, connNode, link,
          last, passNodes, passConns, mesh, nodeWidget, nodeState, shell, app,
          canvas, drag>>

\* what the layout pass and the Link constructors never touch
restVars == <<mesh, nodeWidget, nodeState, shell, app, canvas, drag>>

(***************************************************************************)
(* f32 values.  A finite value is an exact fraction n/d (d > 0, lowest     *)
(* terms); d = 0 encodes the IEEE specials: NaN (n = 0), +inf (n = 1) and  *)
(* -inf (n = -1).  Rounding is not modelled, except in FSqrt.              *)
(***************************************************************************)
\* Rust evaluates an argument once, before the call: ByValue1 and ByValue2
\* apply Op to the values of the arguments
ByValue1(Op(_), a) ==
    CHOOSE r \in { Op(x) : x \in {a} } : TRUE

ByValue2(Op(_, _), a, b) ==
    CHOOSE r \in { Op(x, y) : x \in {a}, y \in {b} } : TRUE

RECURSIVE GCD(_, _)
GCD(a, b) ==
    IF b = 0 THEN a ELSE GCD(b, a % b)

Abs(i) ==
    IF i < 0 THEN -i ELSE i

Sign(i) ==
    IF i < 0 THEN -1 ELSE IF i > 0 THEN 1 ELSE 0

Frac(n, d) ==
    LET g == GCD(Abs(n), Abs(d))
        s == IF d < 0 THEN -1 ELSE 1
    IN [n |-> s * (n \div g), d |-> s * (d \div g)]

F(i) ==
    [n |-> i, d |-> 1]

NaN ==
    [n |-> 0, d |-> 0]

Inf(s) ==
    [n |-> s, d |-> 0]

IsNaN(a) ==
    a.d = 0 /\ a.n = 0

IsInf(a) ==
    a.d = 0 /\ a.n # 0

IsFinite(a) ==
    a.d # 0

FNeg(a) ==
    [n |-> -a.n, d |-> a.d]

AddF32(a, b) ==
    IF IsNaN(a) \/ IsNaN(b) THEN NaN
    ELSE IF IsInf(a) THEN (IF IsInf(b) /\ b.n # a.n THEN NaN ELSE a)
    ELSE IF IsInf(b) THEN b
    ELSE Frac(a.n * b.d + b.n * a.d, a.d * b.d)

FAdd(a, b) ==
    ByValue2(AddF32, a, b)

SubF32(a, b) ==
    AddF32(a, FNeg(b))

FSub(a, b) ==
    ByValue2(SubF32, a, b)

MulF32(a, b) ==
    IF IsNaN(a) \/ IsNaN(b) THEN NaN
    ELSE IF IsInf(a) \/ IsInf(b)
         THEN (IF a.n = 0 \/ b.n = 0 THEN NaN ELSE Inf(Sign(a.n) * Sign(b.n)))
    ELSE Frac(a.n * b.n, a.d * b.d)

FMul(a, b) ==
    ByValue2(MulF32, a, b)

DivF32(a, b) ==
    IF IsNaN(a) \/ IsNaN(b) THEN NaN
    ELSE IF IsInf(a) THEN (IF IsInf(b) THEN NaN
                           ELSE Inf(a.n * (IF b.n < 0 THEN -1 ELSE 1)))
    ELSE IF IsInf(b) THEN F(0)
    ELSE IF b.n = 0 THEN (IF a.n = 0 THEN NaN ELSE Inf(Sign(a.n)))
    ELSE Frac(a.n * b.d, a.d * b.n)

FDiv(a, b) ==
    ByValue2(DivF32, a, b)

\* a < b on f32: false as soon as one side is NaN
FLt(a, b) ==
    IF IsNaN(a) \/ IsNaN(b) THEN FALSE
    ELSE IF IsInf(a) THEN a.n < 0 /\ b # a
    ELSE IF IsInf(b) THEN b.n > 0
    ELSE a.n * b.d < b.n * a.d

\* a == b on f32: NaN equals nothing, itself included
FEq(a, b) ==
    ~IsNaN(a) /\ ~IsNaN(b) /\ a = b

FCeil(a) ==
    IF ~IsFinite(a) THEN a
    ELSE F(-((-a.n) \div a.d))

RECURSIVE ISqrtFrom(_, _)
ISqrtFrom(a, s) ==
    IF (s + 1) * (s + 1) > a THEN s ELSE ISqrtFrom(a, s + 1)

\* powf(0.5): exact on perfect squares, otherwise rounded down to an integer
SqrtF32(a) ==
    IF IsNaN(a) THEN NaN
    ELSE IF IsInf(a) THEN (IF a.n > 0 THEN a ELSE NaN)
    ELSE IF a.n < 0 THEN NaN
    ELSE F(ISqrtFrom(a.n \div a.d, 0))

FSqrt(a) ==
    ByValue1(SqrtF32, a)

(***************************************************************************)
(* iced::Vector, iced::Point and iced::Rectangle                           *)
(***************************************************************************)
Vec(x, y) ==
    [x |-> x, y |-> y]

AddVector(a, b) ==
    Vec(AddF32(a.x, b.x), AddF32(a.y, b.y))

VAdd(a, b) ==
    ByValue2(AddVector, a, b)

SubVector(a, b) ==
    Vec(SubF32(a.x, b.x), SubF32(a.y, b.y))

VSub(a, b) ==
    ByValue2(SubVector, a, b)

MulVector(a, k) ==
    Vec(MulF32(a.x, k), MulF32(a.y, k))

VScale(a, k) ==
    ByValue2(MulVector, a, k)

Rect(x, y, w, h) ==
    [x |-> x, y |-> y, width |-> w, height |-> h]

center_x(r) ==
    FAdd(r.x, FDiv(r.width, F(2)))

center_y(r) ==
    FAdd(r.y, FDiv(r.height, F(2)))

RectTranslate(r, v) ==
    Rect(FAdd(r.x, v.x), FAdd(r.y, v.y), r.width, r.height)

(***************************************************************************)
(* Bounds of the model and the values the inputs are drawn from            *)
(***************************************************************************)
\* most node layouts in one pass (between two clears)
MaxNodes == 2

\* most sockets of a generated node, and range of socket_index in endpoints
MaxSockets == 2

\* largest number_of_segments a connection is configured with
MaxSegments == 2

Scales ==
    {F(1), F(2)}

Points ==
    {Vec(F(0), F(0)), Vec(F(3), F(2))}

Roles ==
    {"In", "Out"}

Sides ==
    {"Left", "Right"}

(***************************************************************************)
(* connection.rs: Endpoint, LogicalEndpoint, Link                          *)
(***************************************************************************)
Absolute(point) ==
    [kind |-> "Absolute", point |-> point]

Socket(node_index, role, socket_index) ==
    [kind |-> "Socket", node_index |-> node_index, role |-> role,
     socket_index |-> socket_index]

Endpoint_start(node_index, socket_index) ==
    Socket(node_index, "Out", socket_index)

Endpoint_end(node_index, socket_index) ==
    Socket(node_index, "In", socket_index)

IsSocket(e) ==
    e.kind = "Socket"

\* the outcome of a call: a value, or the panic that ended it
Ok(v) ==
    [ok |-> TRUE, val |-> <<v>>, panic |-> "none"]

Panic(msg) ==
    [ok |-> FALSE, val |-> <<>>, panic |-> msg]

Val(r) ==
    r.val[1]

\* a constructor without its two assertions
Link_new_Unchecked(start, end) ==
    Ok([start |-> start, end |-> end])

Link_new(start, end) ==
    IF IsSocket(start) /\ start.role # "Out"
        THEN Panic("assert_eq role")
    ELSE IF IsSocket(end) /\ end.role # "In"
        THEN Panic("assert_eq role")
    ELSE Ok([start |-> start, end |-> end])

\* a from_unordered that forgets to swap an Out socket given second
Link_from_unordered_NoSwap(e1, e2) ==
    IF ~IsSocket(e1)
    THEN Link_new(e1, e2)
    ELSE IF IsSocket(e2) /\ e1.role = e2.role
         THEN Panic("same role")
    ELSE IF e1.role = "In" THEN Link_new(e2, e1)
    ELSE Link_new(e1, e2)

\* a from_unordered that orders by the first role alone and fills the
\* struct itself, without the same-role check and without Link::new
Link_from_unordered_Unchecked(e1, e2) ==
    IF ~IsSocket(e1)
    THEN IF IsSocket(e2) /\ e2.role = "Out"
         THEN Ok([start |-> e2, end |-> e1])
         ELSE Ok([start |-> e1, end |-> e2])
    ELSE IF e1.role = "In" THEN Ok([start |-> e2, end |-> e1])
    ELSE Ok([start |-> e1, end |-> e2])

Link_from_unordered(e1, e2) ==
    IF ~IsSocket(e1)
    THEN IF ~IsSocket(e2) THEN Link_new(e1, e2)
         ELSE IF e2.role = "In" THEN Link_new(e1, e2)
         ELSE Link_new(e2, e1)
    ELSE IF IsSocket(e2) /\ e1.role = e2.role
         THEN Panic("same role")
    ELSE IF e1.role = "In" THEN Link_new(e2, e1)
    ELSE Link_new(e1, e2)

\* a resolve that reads the sequence of the other role
Endpoint_resolve_OtherRole(e, scale, ins, outs) ==
    IF ~IsSocket(e)
    THEN Ok(Vec(FMul(e.point.x, scale), FMul(e.point.y, scale)))
    ELSE LET node_sockets == IF e.role = "In" THEN outs ELSE ins
         IN IF e.node_index + 1 > Len(node_sockets)
            THEN Panic("node index out of bounds")
            ELSE LET sockets == node_sockets[e.node_index + 1]
                 IN IF e.socket_index + 1 > Len(sockets)
                    THEN Panic("socket index out of bounds")
                    ELSE LET rect == sockets[e.socket_index + 1]
                         IN Ok(Vec(center_x(rect), center_y(rect)))

\* a resolve that answers the origin for a socket it does not find
Endpoint_resolve_Lenient(e, scale, ins, outs) ==
    IF ~IsSocket(e)
    THEN Ok(Vec(FMul(e.point.x, scale), FMul(e.point.y, scale)))
    ELSE LET node_sockets == IF e.role = "In" THEN ins ELSE outs
         IN IF e.node_index + 1 > Len(node_sockets)
            THEN Ok(Vec(F(0), F(0)))
            ELSE LET sockets == node_sockets[e.node_index + 1]
                 IN IF e.socket_index + 1 > Len(sockets)
                    THEN Ok(Vec(F(0), F(0)))
                    ELSE LET rect == sockets[e.socket_index + 1]
                         IN Ok(Vec(center_x(rect), center_y(rect)))

Endpoint_resolve(e, scale, ins, outs) ==
    IF ~IsSocket(e)
    THEN Ok(Vec(FMul(e.point.x, scale), FMul(e.point.y, scale)))
    ELSE LET node_sockets == IF e.role = "In" THEN ins ELSE outs
         IN IF e.node_index + 1 > Len(node_sockets)
            THEN Panic("node index out of bounds")
            ELSE LET sockets == node_sockets[e.node_index + 1]
                 IN IF e.socket_index + 1 > Len(sockets)
                    THEN Panic("socket index out of bounds")
                    ELSE LET rect == sockets[e.socket_index + 1]
                         IN Ok(Vec(center_x(rect), center_y(rect)))

(***************************************************************************)
(* connection.rs: spline generation                                        *)
(***************************************************************************)
dot_vector(vector, other) ==
    FAdd(FMul(vector.x, other.x), FMul(vector.y, other.y))

\* get_t with alpha = 1.0, the only value layout passes: powf(alpha * 0.5)
\* is the square root
get_t(t, p0, p1) ==
    LET d == VSub(p1, p0)
        a == dot_vector(d, d)
        b == FSqrt(a)
    IN FAdd(b, t)

catmull_rom(p0, p1, p2, p3, t_in) ==
    LET t0 == F(0)
        t1 == get_t(t0, p0, p1)
        t2 == get_t(t1, p1, p2)
        t3 == get_t(t2, p2, p3)
        t  == FAdd(t1, FMul(FSub(t2, t1), t_in))
        a1 == VAdd(VScale(p0, FDiv(FSub(t1, t), FSub(t1, t0))),
                   VScale(p1, FDiv(FSub(t, t0), FSub(t1, t0))))
        a2 == VAdd(VScale(p1, FDiv(FSub(t2, t), FSub(t2, t1))),
                   VScale(p2, FDiv(FSub(t, t1), FSub(t2, t1))))
        a3 == VAdd(VScale(p2, FDiv(FSub(t3, t), FSub(t3, t2))),
                   VScale(p3, FDiv(FSub(t, t2), FSub(t3, t2))))
        b1 == VAdd(VScale(a1, FDiv(FSub(t2, t), FSub(t2, t0))),
                   VScale(a2, FDiv(FSub(t, t0), FSub(t2, t0))))
        b2 == VAdd(VScale(a2, FDiv(FSub(t3, t), FSub(t3, t1))),
                   VScale(a3, FDiv(FSub(t, t1), FSub(t3, t1))))
    IN VAdd(VScale(b1, FDiv(FSub(t2, t), FSub(t2, t1))),
            VScale(b2, FDiv(FSub(t, t1), FSub(t2, t1))))

\* the parameter of sample i: i as f32 / (number_of_segments - 1) as f32
SampleParameter(i, number_of_segments) ==
    FDiv(F(i), F(number_of_segments - 1))

generate_spline(from, control_scale, to, number_of_segments) ==
    [k \in 1..number_of_segments |->
        catmull_rom(Vec(FSub(from.x, control_scale), from.y),
                    from,
                    to,
                    Vec(FAdd(to.x, control_scale), to.y),
                    SampleParameter(k - 1, number_of_segments))]

\* if v < cur { cur = v }
MinF32(cur, v) ==
    IF FLt(v, cur) THEN v ELSE cur

FMin(cur, v) ==
    ByValue2(MinF32, cur, v)

\* if v > cur { cur = v }
MaxF32(cur, v) ==
    IF FLt(cur, v) THEN v ELSE cur

FMax(cur, v) ==
    ByValue2(MaxF32, cur, v)

RECURSIVE BoundsLoop(_, _, _, _, _, _)
BoundsLoop(points, k, min_x, min_y, max_x, max_y) ==
    IF k > Len(points)
    THEN Rect(min_x, min_y, FSub(max_x, min_x), FSub(max_y, min_y))
    ELSE BoundsLoop(points, k + 1,
                    FMin(min_x, points[k].x), FMin(min_y, points[k].y),
                    FMax(max_x, points[k].x), FMax(max_y, points[k].y))

\* points[0] of an empty slice is an index-out-of-bounds panic
bounds_for_vectors(points) ==
    IF Len(points) = 0
    THEN Panic("index out of bounds")
    ELSE Ok(BoundsLoop(points, 2, points[1].x, points[1].y,
                       points[1].x, points[1].y))

(***************************************************************************)
(* node.rs: Socket and the node's ScalableWidget::layout                   *)
(***************************************************************************)
\* examples/sockets: const BLOB_RADIUS: f32 = 5.0
BLOB_RADIUS == 5

\* a Socket: its role, its blob, and the height its content widget lays
\* out to (the toolkit's answer to socket.content.layout)
MkSocket(role, blob_side) ==
    [role |-> role, blob_side |-> blob_side, blob_radius |-> F(BLOB_RADIUS),
     content_height |-> F(2)]

\* examples/sockets make_socket: In blobs on the left, Out on the right
make_socket(role) ==
    MkSocket(role, IF role = "In" THEN "Left" ELSE "Right")

blob_rect(socket, node_left, node_width, center_y_) ==
    LET x == IF socket.blob_side = "Left" THEN node_left
             ELSE FAdd(node_left, node_width)
    IN Rect(FSub(x, socket.blob_radius), FSub(center_y_, socket.blob_radius),
            FMul(socket.blob_radius, F(2)), FMul(socket.blob_radius, F(2)))

\* a Node as layout sees it: frame is limits.resolve(content.size()) and
\* padding the fitted padding, both computed by the toolkit
MkNode(sockets, position) ==
    [sockets |-> sockets, position |-> position,
     frame |-> [width |-> F(8), height |-> F(4)],
     padding |-> F(1), socket_spacing |-> F(1)]

\* the loop over self.sockets: acc carries socket_top, in_sockets,
\* out_sockets and the socket rows pushed to children
RECURSIVE SocketLoop(_, _, _, _)
SocketLoop(node, scale, k, acc) ==
    IF k > Len(node.sockets) THEN acc
    ELSE LET socket == node.sockets[k]
             top == FAdd(acc.socket_top, FMul(node.socket_spacing, scale))
             content_available_width ==
                 FSub(FSub(FMul(node.frame.width, scale), node.padding),
                      node.padding)
             height_scaled == FMul(socket.content_height, scale)
             row == Rect(node.padding, FAdd(node.padding, top),
                         content_available_width, height_scaled)
             rect == RectTranslate(
                         blob_rect(socket, F(0),
                                   FMul(node.frame.width, scale),
                                   FAdd(FAdd(node.padding, top),
                                        FDiv(height_scaled, F(2)))),
                         VScale(node.position, scale))
         IN SocketLoop(node, scale, k + 1,
                [socket_top |-> FAdd(top, height_scaled),
                 in_sockets |-> IF socket.role = "In"
                                THEN Append(acc.in_sockets, rect)
                                ELSE acc.in_sockets,
                 out_sockets |-> IF socket.role = "Out"
                                 THEN Append(acc.out_sockets, rect)
                                 ELSE acc.out_sockets,
                 rows |-> Append(acc.rows, row)])

\* a layout that pushes each list to the other role's sequence
Node_layout_RolesSwapped(node, scale) ==
    LET content_available_height ==
            FSub(FSub(FMul(node.frame.height, scale), node.padding),
                 node.padding)
        acc == SocketLoop(node, scale, 1,
                   [socket_top |-> content_available_height,
                    in_sockets |-> <<>>, out_sockets |-> <<>>,
                    rows |-> <<>>])
        total == Rect(F(0), F(0), FMul(node.frame.width, scale),
                      FAdd(FAdd(node.padding, acc.socket_top), node.padding))
    IN [in_sockets |-> acc.out_sockets, out_sockets |-> acc.in_sockets,
        rows |-> acc.rows,
        bounds |-> RectTranslate(total, VScale(node.position, scale))]

\* a layout that pushes each socket to the front of its role's list
Node_layout_NewestFirst(node, scale) ==
    LET content_available_height ==
            FSub(FSub(FMul(node.frame.height, scale), node.padding),
                 node.padding)
        acc == SocketLoop(node, scale, 1,
                   [socket_top |-> content_available_height,
                    in_sockets |-> <<>>, out_sockets |-> <<>>,
                    rows |-> <<>>])
        total == Rect(F(0), F(0), FMul(node.frame.width, scale),
                      FAdd(FAdd(node.padding, acc.socket_top), node.padding))
        Newest(q) == [j \in 1..Len(q) |-> q[Len(q) + 1 - j]]
    IN [in_sockets |-> Newest(acc.in_sockets),
        out_sockets |-> Newest(acc.out_sockets),
        rows |-> acc.rows,
        bounds |-> RectTranslate(total, VScale(node.position, scale))]

\* a layout that returns the node without node.translate(position * scale)
Node_layout_Untranslated(node, scale) ==
    LET content_available_height ==
            FSub(FSub(FMul(node.frame.height, scale), node.padding),
                 node.padding)
        acc == SocketLoop(node, scale, 1,
                   [socket_top |-> content_available_height,
                    in_sockets |-> <<>>, out_sockets |-> <<>>,
                    rows |-> <<>>])
        total == Rect(F(0), F(0), FMul(node.frame.width, scale),
                      FAdd(FAdd(node.padding, acc.socket_top), node.padding))
    IN [in_sockets |-> acc.in_sockets, out_sockets |-> acc.out_sockets,
        rows |-> acc.rows,
        bounds |-> total]

\* what layout computes once the done check has passed
Node_layout(node, scale) ==
    LET content_available_height ==
            FSub(FSub(FMul(node.frame.height, scale), node.padding),
                 node.padding)
        acc == SocketLoop(node, scale, 1,
                   [socket_top |-> content_available_height,
                    in_sockets |-> <<>>, out_sockets |-> <<>>,
                    rows |-> <<>>])
        total == Rect(F(0), F(0), FMul(node.frame.width, scale),
                      FAdd(FAdd(node.padding, acc.socket_top), node.padding))
    IN [in_sockets |-> acc.in_sockets, out_sockets |-> acc.out_sockets,
        rows |-> acc.rows,
        bounds |-> RectTranslate(total, VScale(node.position, scale))]

\* a layout that never checks the flag
NodeOrderingViolated_Unchecked(done_) ==
    FALSE

\* the check that opens layout: a node after a connection is a panic
NodeOrderingViolated(done_) ==
    done_

(***************************************************************************)
(* connection.rs: Connection and its ScalableWidget::layout                *)
(***************************************************************************)
\* Connection::new(link).number_of_segments(n); width keeps its default 1.2
Connection_new(l, number_of_segments) ==
    [link |-> l, width |-> Frac(12, 10),
     number_of_segments |-> number_of_segments]

\* the tail of layout: the spline moved to the origin of its bounds is
\* written to the cache, and the layout node placed at the bounds is returned
LayoutSpline(raw, b, from, to, width) ==
    IF ~b.ok THEN Panic(b.panic)
    ELSE LET spline_bounds == Val(b)
         IN Ok([from |-> from, to |-> to,
                spline |-> [k \in 1..Len(raw) |->
                    Vec(FSub(raw[k].x, spline_bounds.x),
                        FSub(raw[k].y, spline_bounds.y))],
                node |-> Rect(spline_bounds.x, spline_bounds.y,
                    FCeil(FAdd(spline_bounds.width, width)),
                    FCeil(FAdd(spline_bounds.height, width)))])

\* layout once both endpoints are resolved (a panic of resolve ends it)
LayoutResolved(c, from, to) ==
    IF ~from.ok THEN Panic(from.panic)
    ELSE IF ~to.ok THEN Panic(to.panic)
    ELSE ByValue1(LAMBDA raw : LayoutSpline(raw, bounds_for_vectors(raw),
                                            Val(from), Val(to), c.width),
                  generate_spline(Val(from), F(1), Val(to),
                                  c.number_of_segments))

\* everything layout does after socket_state.done = true: the outcome is a
\* panic, or the spline written to the cache and the layout node returned
Connection_layout(c, scale, ins, outs) ==
    ByValue2(LAMBDA from, to : LayoutResolved(c, from, to),
             Endpoint_resolve(c.link.start, scale, ins, outs),
             Endpoint_resolve(c.link.end, scale, ins, outs))

(***************************************************************************)
(* The inputs of a layout pass                                             *)
(***************************************************************************)
\* socket lists of the nodes laid out: nodes #0 and #1 of examples/sockets
\* (all In sockets, then all Out sockets) and one with the roles interleaved
\* and the blob sides swapped
SampleSockets ==
    { <<make_socket("Out"), make_socket("Out")>>,
      <<make_socket("In"), make_socket("Out"), make_socket("Out")>>,
      <<MkSocket("Out", "Left"), MkSocket("In", "Right")>> }

SampleNodes ==
    { MkNode(sockets, position) : sockets \in SampleSockets, position \in Points }

\* endpoint pairs handed to Connection::between
SampleEndpointPairs ==
    { <<Endpoint_start(0, 1), Endpoint_end(1, 0)>>,
      <<Endpoint_end(0, 0), Endpoint_start(1, 0)>>,
      <<Endpoint_start(0, 0), Absolute(Vec(F(3), F(2)))>>,
      <<Absolute(Vec(F(0), F(0))), Absolute(Vec(F(3), F(2)))>> }

SampleLinks ==
    { Val(Link_from_unordered(p[1], p[2])) : p \in SampleEndpointPairs }

Connections ==
    { Connection_new(l, n) : l \in SampleLinks, n \in 0..MaxSegments }

\* endpoints handed to the Link constructors
Endpoints ==
    { Absolute(p) : p \in Points }
    \cup { Socket(n, r, s) : n \in 0..(MaxNodes - 1), r \in Roles,
                             s \in 0..(MaxSockets - 1) }

(***************************************************************************)
(* State: socket_state (inputs, outputs, done); zoom, the scale the graph   *)
(* container hands to every layout; the Connection conn, its               *)
(* spline cache and the layout node its last layout returned; the Link the *)
(* last constructor call returned; panicked, the panic that ended the run. *)
(* last records the last call and its arguments; passNodes and passConns   *)
(* record the node layouts and whether a connection was laid out since the *)
(* last clear.                                                             *)
(***************************************************************************)
Call(op, args) ==
    [op |-> op, args |-> args]

\* a NodeState of the application: the position and how many In and Out
\* sockets the node has
Example_NodeState(position, in_sockets, out_sockets) ==
    [position |-> position, sockets |-> <<in_sockets, out_sockets>>]

\* Example::new: the three nodes, the connections keyed by their target
\* (node, socket), no dangling connection
Example_new ==
    [nodes |-> <<Example_NodeState(Vec(F(0), F(0)), 0, 2),
                 Example_NodeState(Vec(F(250), F(250)), 1, 2),
                 Example_NodeState(Vec(F(500), F(250)), 2, 0)>>,
     connections |-> (<<2, 0>> :> <<1, 1>>) @@ (<<1, 0>> :> <<0, 1>>),
     dangling_source |-> <<>>,
     dangling_connection |-> <<>>]

\* node(content).sockets(sockets), with on_translate set or not; it is node
\* #0 of the application
Node_new(sockets, on_translate) ==
    [i |-> 0, sockets |-> sockets, on_translate |-> on_translate]

\* the state() of a Node's tree: no drag
NodeState_new ==
    [drag_start_position |-> <<>>]

\* a node widget that has received no event, in the application as built
NoEvents(widget) ==
    /\ nodeWidget = widget
    /\ nodeState = NodeState_new
    /\ drag = [press |-> <<>>, at |-> <<>>, sum |-> Vec(F(0), F(0))]
    /\ shell = <<>>
    /\ app = Example_new

InitWith(c, scale) ==
    /\ inputs = <<>>
    /\ zoom = scale
    /\ outputs = <<>>
    /\ done = FALSE
    /\ panicked = "none"
    /\ conn = c
    /\ spline = <<>>
    /\ connNode = <<>>
    /\ link = <<>>
    /\ last = Call("new", <<>>)
    /\ passNodes = <<>>
    /\ passConns = FALSE
    /\ mesh = <<>>
    /\ canvas = <<>>

Init ==
    \E c \in Connections, scale \in Scales :
        InitWith(c, scale) /\ NoEvents(Node_new(<<>>, FALSE))

\* a clear that forgets self.done = false
SocketLayoutState_clear_KeepsDone(st) ==
    [inputs |-> <<>>, outputs |-> <<>>, done |-> st.done]

\* a clear that forgets self.inputs.clear()
SocketLayoutState_clear_KeepsInputs(st) ==
    [inputs |-> st.inputs, outputs |-> <<>>, done |-> FALSE]

\* SocketLayoutState::clear, on the state st
SocketLayoutState_clear(st) ==
    [inputs |-> <<>>, outputs |-> <<>>, done |-> FALSE]

Clear ==
    /\ panicked = "none"
    /\ \E st \in { SocketLayoutState_clear(
                      [inputs |-> inputs, outputs |-> outputs, done |-> done]) } :
          /\ inputs' = st.inputs
          /\ outputs' = st.outputs
          /\ done' = st.done
    /\ last' = Call("clear", <<>>)
    /\ passNodes' = <<>>
    /\ passConns' = FALSE
    /\ UNCHANGED <<panicked, zoom, conn, spline, connNode, link>>
    /\ UNCHANGED restVars

\* <Node as ScalableWidget>::layout
NodeLayout(node, scale) ==
    /\ panicked = "none"
    /\ done \/ Len(passNodes) < MaxNodes
    /\ last' = Call("node", <<node, scale>>)
    /\ IF NodeOrderingViolated(done)
       THEN /\ panicked' = "nodes after connections"
            /\ UNCHANGED <<inputs, outputs, passNodes>>
       ELSE LET r == Node_layout(node, scale)
            IN /\ inputs' = Append(inputs, r.in_sockets)
               /\ outputs' = Append(outputs, r.out_sockets)
               /\ passNodes' = Append(passNodes, [node |-> node, scale |-> scale])
               /\ UNCHANGED panicked
    /\ UNCHANGED <<done, zoom, conn, spline, connNode, link, passConns>>
    /\ UNCHANGED restVars

\* a cache write that extends the cached points instead of replacing them
Connection_cache_Extend(cached, new_spline) ==
    cached \o new_spline

\* *self_state = spline: the cache after layout has written new_spline
Connection_cache(cached, new_spline) ==
    new_spline

\* a connection layout that sets the flag only once both endpoints resolved
ConnectionLayout_LateFlag(scale) ==
    /\ panicked = "none"
    /\ passConns' = TRUE
    /\ \E r \in { Connection_layout(conn, scale, inputs, outputs) } :
          IF r.ok
          THEN /\ done' = TRUE
               /\ spline' = Connection_cache(spline, Val(r).spline)
               /\ connNode' = <<Val(r).node>>
               /\ last' = Call("connection",
                               <<scale, Val(r).from, Val(r).to,
                                 spline # <<>> /\ spline # Val(r).spline>>)
               /\ UNCHANGED panicked
          ELSE /\ panicked' = r.panic
               /\ last' = Call("connection", <<scale>>)
               /\ UNCHANGED <<done, spline, connNode>>
    /\ UNCHANGED <<inputs, outputs, zoom, conn, link, passNodes>>
    /\ UNCHANGED restVars

\* <Connection as ScalableWidget>::layout; the last argument recorded is
\* whether the cache held other points before the call
ConnectionLayout(scale) ==
    /\ panicked = "none"
    /\ done' = TRUE
    /\ passConns' = TRUE
    /\ \E r \in { Connection_layout(conn, scale, inputs, outputs) } :
          IF r.ok
          THEN /\ spline' = Connection_cache(spline, Val(r).spline)
               /\ connNode' = <<Val(r).node>>
               /\ last' = Call("connection",
                               <<scale, Val(r).from, Val(r).to,
                                 spline # <<>> /\ spline # Val(r).spline>>)
               /\ UNCHANGED panicked
          ELSE /\ panicked' = r.panic
               /\ last' = Call("connection", <<scale>>)
               /\ UNCHANGED <<spline, connNode>>
    /\ UNCHANGED <<inputs, outputs, zoom, conn, link, passNodes>>
    /\ UNCHANGED restVars

Next ==
    \/ Clear
    \/ \E node \in SampleNodes : NodeLayout(node, zoom)
    \/ ConnectionLayout(zoom)

Spec ==
    Init /\ [][Next]_vars

(***************************************************************************)
(* The Link constructors, called on any two endpoints                      *)
(***************************************************************************)
LinkCall(op, r, e1, e2) ==
    /\ panicked = "none"
    /\ link' = r.val
    /\ panicked' = r.panic
    /\ last' = Call(op, <<e1, e2>>)
    /\ UNCHANGED <<inputs, outputs, done, zoom, conn, spline, connNode,
                   passNodes, passConns>>
    /\ UNCHANGED restVars

LinkNew(e1, e2) ==
    LinkCall("Link::new", Link_new(e1, e2), e1, e2)

LinkFromUnordered(e1, e2) ==
    LinkCall("Link::from_unordered", Link_from_unordered(e1, e2), e1, e2)

InitLink ==
    /\ InitWith(Connection_new(
          Val(Link_new(Absolute(Vec(F(0), F(0))), Absolute(Vec(F(3), F(2))))),
          2), F(1))
    /\ NoEvents(Node_new(<<>>, FALSE))

NextLink ==
    \/ \E e1 \in Endpoints, e2 \in Endpoints : LinkNew(e1, e2)
    \/ \E e1 \in Endpoints, e2 \in Endpoints : LinkFromUnordered(e1, e2)

SpecLink ==
    InitLink /\ [][NextLink]_vars

(***************************************************************************)
(* Properties of the layout pass                                           *)
(***************************************************************************)
RECURSIVE CountRole(_, _)
CountRole(sockets, role) ==
    IF sockets = <<>> THEN 0
    ELSE (IF Head(sockets).role = role THEN 1 ELSE 0)
         + CountRole(Tail(sockets), role)

\* the sequence of the role of endpoint e in the current socket state
RoleSequence(e) ==
    IF e.role = "In" THEN inputs ELSE outputs

\* C1: a node layout that follows a connection layout of the same pass
\* panics with the ordering error and appends nothing to inputs or outputs
C1_NodeAfterConnectionPanics ==
    [][(last'.op = "node" /\ passConns)
         => /\ panicked' = "nodes after connections"
            /\ inputs' = inputs
            /\ outputs' = outputs]_vars

\* the ordering panic, raised after two nodes and a connection
C1_Witness ==
    /\ last.op = "node"
    /\ panicked = "nodes after connections"
    /\ Len(passNodes) = 2
    /\ passConns

\* C2: while a pass has laid out nodes only, nothing has panicked and done
\* is false
C2_NodesOnlyLeaveDoneFalse ==
    ~passConns => (done = FALSE /\ panicked = "none")

\* a pass of MaxNodes nodes and no connection
C2_Witness ==
    /\ last.op = "node"
    /\ ~passConns
    /\ Len(passNodes) = MaxNodes
    /\ done = FALSE

\* C3: a successful layout of a node with k In and m Out sockets, as node i
\* of the pass, appends one entry of length k to inputs and one of length m
\* to outputs at index i and keeps the earlier entries
C3_NodeAppendsOneEntryPerRole ==
    [][(last'.op = "node" /\ panicked' = "none")
         => LET node == last'.args[1]
                i == Len(passNodes)
            IN /\ Len(inputs) = i
               /\ Len(outputs) = i
               /\ Len(inputs') = i + 1
               /\ Len(outputs') = i + 1
               /\ Len(inputs'[i + 1]) = CountRole(node.sockets, "In")
               /\ Len(outputs'[i + 1]) = CountRole(node.sockets, "Out")
               /\ SubSeq(inputs', 1, i) = inputs
               /\ SubSeq(outputs', 1, i) = outputs]_vars

\* a node with one In and two Out sockets laid out as the second node
C3_Witness ==
    /\ last.op = "node"
    /\ panicked = "none"
    /\ Len(inputs) = 2
    /\ Len(inputs[1]) = 0
    /\ Len(inputs[2]) = 1
    /\ Len(outputs[2]) = 2

\* what Node::layout computes for each sample node at each scale
SampleLayouts ==
    [node \in SampleNodes, scale \in Scales |-> Node_layout(node, scale)]

\* C4: clear leaves both sequences empty and done false; the ordering panic
\* needs a connection laid out since the last clear; and the socket state
\* holds the rectangles of the nodes laid out since the last clear, no other
C4_ClearStartsAFreshPass ==
    /\ last.op = "clear" => (inputs = <<>> /\ outputs = <<>> /\ done = FALSE)
    /\ panicked = "nodes after connections" => passConns
    /\ inputs = [i \in 1..Len(passNodes) |->
                    SampleLayouts[passNodes[i].node, passNodes[i].scale].in_sockets]
    /\ outputs = [i \in 1..Len(passNodes) |->
                    SampleLayouts[passNodes[i].node, passNodes[i].scale].out_sockets]

\* two nodes laid out after the clear that followed a pass with a
\* connection (its spline is still cached)
C4_Witness ==
    /\ spline # <<>>
    /\ ~passConns
    /\ last.op = "node"
    /\ panicked = "none"
    /\ Len(passNodes) = 2

(***************************************************************************)
(* Properties of the Link constructors                                     *)
(***************************************************************************)
WellOrdered(l) ==
    /\ IsSocket(l.start) => l.start.role = "Out"
    /\ IsSocket(l.end) => l.end.role = "In"

IsLinkCall ==
    last.op \in {"Link::new", "Link::from_unordered"}

\* C5: a Link returned by Link::new or Link::from_unordered has an Out
\* socket or an absolute point at start and an In socket or an absolute
\* point at end; a call that panics returns no Link
C5_LinkInvariant ==
    IsLinkCall =>
        /\ link # <<>> => WellOrdered(link[1])
        /\ panicked # "none" => link = <<>>
        /\ (/\ last.op = "Link::new"
            /\ ~WellOrdered([start |-> last.args[1], end |-> last.args[2]]))
           => (panicked # "none" /\ link = <<>>)

\* from_unordered given an In socket first and an Out socket second
C5_Witness ==
    /\ last.op = "Link::from_unordered"
    /\ link # <<>>
    /\ IsSocket(last.args[1]) /\ last.args[1].role = "In"
    /\ IsSocket(last.args[2]) /\ last.args[2].role = "Out"
    /\ link[1].start = last.args[2]

\* at least one socket, and not two sockets of one role
Orderable(e1, e2) ==
    /\ IsSocket(e1) \/ IsSocket(e2)
    /\ ~(IsSocket(e1) /\ IsSocket(e2) /\ e1.role = e2.role)

\* C6: for orderable arguments from_unordered returns a link, the same for
\* both argument orders, made of the two arguments, with an Out socket at
\* start and an In socket at end
C6_FromUnorderedIgnoresOrder ==
    (last.op = "Link::from_unordered" /\ Orderable(last.args[1], last.args[2]))
        => LET e1 == last.args[1]
               e2 == last.args[2]
           IN /\ link # <<>>
              /\ Link_from_unordered(e2, e1) = Ok(link[1])
              /\ {link[1].start, link[1].end} = {e1, e2}
              /\ \A e \in {e1, e2} :
                    /\ (IsSocket(e) /\ e.role = "Out") => link[1].start = e
                    /\ (IsSocket(e) /\ e.role = "In") => link[1].end = e

\* an absolute point first and an Out socket second: the socket is start
C6_Witness ==
    /\ last.op = "Link::from_unordered"
    /\ ~IsSocket(last.args[1])
    /\ IsSocket(last.args[2]) /\ last.args[2].role = "Out"
    /\ link # <<>>
    /\ link[1].start = last.args[2]
    /\ link[1].end = last.args[1]

\* C7: from_unordered on two sockets of one role panics and returns no Link
C7_SameRolePanics ==
    (/\ last.op = "Link::from_unordered"
     /\ IsSocket(last.args[1]) /\ IsSocket(last.args[2])
     /\ last.args[1].role = last.args[2].role)
        => (panicked # "none" /\ link = <<>>)

\* two Out sockets of different nodes
C7_Witness ==
    /\ last.op = "Link::from_unordered"
    /\ IsSocket(last.args[1]) /\ last.args[1].role = "Out"
    /\ IsSocket(last.args[2]) /\ last.args[2].role = "Out"
    /\ last.args[1].node_index # last.args[2].node_index
    /\ panicked = "same role"
    /\ link = <<>>

(***************************************************************************)
(* Properties of Endpoint::resolve and of spline generation, as            *)
(* Connection::layout calls them                                           *)
(***************************************************************************)
\* e names a socket that the current socket state records
InRange(e) ==
    /\ e.node_index < Len(RoleSequence(e))
    /\ e.socket_index < Len(RoleSequence(e)[e.node_index + 1])

\* the center of the rectangle recorded for e in the sequence of its role
RecordedCenter(e) ==
    LET rect == RoleSequence(e)[e.node_index + 1][e.socket_index + 1]
    IN Vec(FAdd(rect.x, FDiv(rect.width, F(2))),
           FAdd(rect.y, FDiv(rect.height, F(2))))

LaidOutConnection ==
    last.op = "connection" /\ panicked = "none"

\* C8: a connection layout that succeeds has resolved each socket endpoint
\* to the center of the rectangle recorded at [node_index][socket_index] of
\* the sequence of the endpoint's role, and any other scale argument gives
\* the same point
C8_ResolveReadsOwnRole ==
    LaidOutConnection =>
        /\ IsSocket(conn.link.start) =>
              /\ InRange(conn.link.start)
              /\ last.args[2] = RecordedCenter(conn.link.start)
        /\ IsSocket(conn.link.end) =>
              /\ InRange(conn.link.end)
              /\ last.args[3] = RecordedCenter(conn.link.end)
        /\ \A e \in {conn.link.start, conn.link.end}, s \in Scales :
              IsSocket(e) => Endpoint_resolve(e, s, inputs, outputs)
                             = Ok(RecordedCenter(e))

\* at zoom 2, a connection between two sockets of one node with the roles
\* interleaved: the Out rectangle and the In rectangle differ
C8_Witness ==
    /\ LaidOutConnection
    /\ zoom = F(2)
    /\ IsSocket(conn.link.start)
    /\ IsSocket(conn.link.end)
    /\ Len(inputs) = 2
    /\ last.args[2] = RecordedCenter(conn.link.start)
    /\ last.args[3] = RecordedCenter(conn.link.end)
    /\ last.args[2] # last.args[3]

\* C9: a connection layout whose start or end socket is not recorded (its
\* node_index or its socket_index is past the recorded counts of its role)
\* panics with the out-of-bounds error of the first such endpoint and
\* resolves nothing
C9_ResolveOutOfBoundsPanics ==
    LET start == conn.link.start
        end == conn.link.end
        bad == { e \in {start, end} : IsSocket(e) /\ ~InRange(e) }
        first == IF start \in bad THEN start ELSE end
    IN (last.op = "connection" /\ bad # {})
         => /\ panicked = IF first.node_index >= Len(RoleSequence(first))
                          THEN "node index out of bounds"
                          ELSE "socket index out of bounds"
            /\ Len(last.args) = 1
            /\ \A e \in bad, s \in Scales :
                  ~Endpoint_resolve(e, s, inputs, outputs).ok

\* both nodes are recorded, the socket index is past the node's sockets
C9_Witness ==
    /\ last.op = "connection"
    /\ panicked = "socket index out of bounds"
    /\ Len(inputs) = 2
    /\ IsSocket(conn.link.start)
    /\ IsSocket(conn.link.end)

\* a connection laid out against the cleared state
C9_WitnessCleared ==
    /\ last.op = "connection"
    /\ panicked = "node index out of bounds"
    /\ inputs = <<>>
    /\ outputs = <<>>

\* C10: the layout of a connection configured with fewer than 2 segments
\* panics and leaves the spline cache as it was, empty
C10_FewSegmentsRejected ==
    (last.op = "connection" /\ conn.number_of_segments < 2)
        => (panicked # "none" /\ spline = <<>>)

(***************************************************************************)
(* Properties of the cached spline                                         *)
(***************************************************************************)
\* the position of the layout node the last connection layout returned
ConnectionOrigin ==
    Vec(connNode[1].x, connNode[1].y)

\* a connection of at least 2 segments between two recorded sockets has
\* been laid out
LaidOutBetweenSockets ==
    /\ LaidOutConnection
    /\ conn.number_of_segments >= 2
    /\ IsSocket(conn.link.start) /\ InRange(conn.link.start)
    /\ IsSocket(conn.link.end) /\ InRange(conn.link.end)

\* C11: after the nodes and then a connection of at least 2 segments
\* between two recorded sockets are laid out, the cached spline shifted by
\* the position of the connection's layout node starts at the center of the
\* rectangle recorded for the Out socket and ends at the center of the
\* rectangle recorded for the In socket, and nothing has panicked
C11_SplineJoinsSocketCenters ==
    LaidOutBetweenSockets =>
        /\ panicked = "none"
        /\ Len(spline) >= 2
        /\ VAdd(spline[1], ConnectionOrigin) = RecordedCenter(conn.link.start)
        /\ VAdd(spline[Len(spline)], ConnectionOrigin)
              = RecordedCenter(conn.link.end)

\* C11 where the two recorded centers differ
C11_DistinctCentersJoined ==
    (/\ LaidOutBetweenSockets
     /\ RecordedCenter(conn.link.start) # RecordedCenter(conn.link.end))
        => /\ VAdd(spline[1], ConnectionOrigin) = RecordedCenter(conn.link.start)
           /\ VAdd(spline[Len(spline)], ConnectionOrigin)
                 = RecordedCenter(conn.link.end)

\* two sockets with distinct centers joined by a spline
C11_DistinctCentersWitness ==
    /\ LaidOutBetweenSockets
    /\ RecordedCenter(conn.link.start) # RecordedCenter(conn.link.end)
    /\ VAdd(spline[1], ConnectionOrigin) = RecordedCenter(conn.link.start)

\* C12: a connection layout that returns leaves the cache with exactly
\* number_of_segments points, the ones the layout computes from the link,
\* the scale and the socket state of the call, whatever the cache held before
C12_LayoutOverwritesCache ==
    [][(last'.op = "connection" /\ panicked' = "none")
         => /\ Len(spline') = conn.number_of_segments
            /\ DOMAIN spline' = 1..conn.number_of_segments
            /\ \A r \in { Connection_layout(conn, zoom, inputs, outputs) } :
                  r.ok /\ spline' = Val(r).spline]_vars

\* a layout that found other points in the cache, left by an earlier pass
\* over nodes at other positions
C12_Witness ==
    /\ LaidOutConnection
    /\ last.args[4]
    /\ Len(spline) = conn.number_of_segments
    /\ conn.number_of_segments >= 2
    /\ IsSocket(conn.link.start)

(***************************************************************************)
(* connection.rs: the polygon mesh of a polyline, built by draw            *)
(***************************************************************************)
\* a normalisation without the zero-length case
normalize_vector_Unguarded(vector) ==
    LET length == FSqrt(FAdd(FMul(vector.x, vector.x),
                             FMul(vector.y, vector.y)))
    IN Vec(FDiv(vector.x, length), FDiv(vector.y, length))

normalize_vector(vector) ==
    LET length == FSqrt(FAdd(FMul(vector.x, vector.x),
                             FMul(vector.y, vector.y)))
    IN IF FEq(length, F(0))
       THEN Vec(F(0), F(0))
       ELSE Vec(FDiv(vector.x, length), FDiv(vector.y, length))

\* a second triangle closed on the vertex after the quad
SegmentIndices_PastQuad(start) ==
    <<start, start + 1, start + 2, start, start + 2, start + 4>>

\* the six indices pushed for the quad whose first vertex is start
SegmentIndices(start) ==
    <<start, start + 1, start + 2, start, start + 2, start + 3>>

\* the four vertices pushed for the segment from last_ to point
SegmentVertices(last_, point, width) ==
    LET dir == normalize_vector(VSub(point, last_))
        normal == Vec(dir.y, FNeg(dir.x))
    IN <<VAdd(last_, VScale(normal, width)),
         VAdd(point, VScale(normal, width)),
         VSub(point, VScale(normal, width)),
         VSub(last_, VScale(normal, width))>>

\* the loop of line_to_polygon from the point at index k (1-based) on
RECURSIVE PolygonLoop(_, _, _, _)
PolygonLoop(points, width, k, acc) ==
    IF k > Len(points) THEN acc
    ELSE LET result == acc.vertices
                       \o SegmentVertices(points[k - 1], points[k], width)
             start == Len(result) - 4
         IN PolygonLoop(points, width, k + 1,
                [vertices |-> result,
                 indices |-> acc.indices \o SegmentIndices(start)])

\* points[0] of an empty slice panics
line_to_polygon(points, width) ==
    IF Len(points) = 0 THEN Panic("index out of bounds")
    ELSE Ok(PolygonLoop(points, width, 2,
                        [vertices |-> <<>>, indices |-> <<>>]))

MaxPoints == 3

\* points at whole distances of each other
PolyPoints ==
    { Vec(F(0), F(0)), Vec(F(3), F(4)), Vec(F(3), F(0)), Vec(F(0), F(4)) }

RECURSIVE SeqsUpTo(_, _)
SeqsUpTo(S, n) ==
    IF n = 0 THEN { <<>> }
    ELSE LET shorter == SeqsUpTo(S, n - 1)
         IN shorter \cup { Append(q, x) : q \in shorter, x \in S }

Polylines ==
    SeqsUpTo(PolyPoints, MaxPoints)

\* f32::MAX and f32::MIN, where the two folds of draw_buffers start. The
\* fractions of the model stop far below 2^127, so each is held as the bound
\* beyond every finite fraction; MIN - MAX, which overflows to -inf in f32,
\* is -inf here too
F32_MAX ==
    Inf(1)

F32_MIN ==
    Inf(-1)

\* the two folds over buffers.vertices, from the vertex at index k on
RECURSIVE VertexFold(_, _, _, _)
VertexFold(vertices, k, min, max) ==
    IF k > Len(vertices) THEN [min |-> min, max |-> max]
    ELSE VertexFold(vertices, k + 1,
                    Vec(FMin(min.x, vertices[k].x), FMin(min.y, vertices[k].y)),
                    Vec(FMax(max.x, vertices[k].x), FMax(max.y, vertices[k].y)))

\* Rectangle::new(Point { x: max.x - min.y, y: max.y - min.y }, size)
clip_bounds(min, max, size) ==
    Rect(FSub(max.x, min.y), FSub(max.y, min.y), size.width, size.height)

\* MeshRenderer::draw_buffers: the draw_mesh calls it makes
draw_buffers(buffers) ==
    LET fold == VertexFold(buffers.vertices, 1, Vec(F32_MAX, F32_MAX),
                           Vec(F32_MIN, F32_MIN))
        size == [width |-> FSub(fold.max.x, fold.min.x),
                 height |-> FSub(fold.max.y, fold.min.y)]
    IN IF /\ (FLt(F(1), size.width) \/ FEq(size.width, F(1)))
          /\ (FLt(F(1), size.height) \/ FEq(size.height, F(1)))
       THEN <<[draw |-> "mesh", buffers |-> buffers,
               clip_bounds |-> clip_bounds(fold.min, fold.max, size)]>>
       ELSE <<>>

\* <Connection as Widget>::draw: the cached spline turned into the vertex
\* and index buffers, handed to draw_buffers under the translation to the
\* origin of the layout bounds
ConnectionDraw(origin) ==
    /\ panicked = "none"
    /\ \E r \in { line_to_polygon(spline, FDiv(conn.width, F(2))) } :
          IF r.ok
          THEN /\ mesh' = <<Val(r)>>
               /\ canvas' = [n \in 1..Len(draw_buffers(Val(r))) |->
                                [translation |-> origin] @@ draw_buffers(Val(r))[n]]
               /\ UNCHANGED panicked
          ELSE /\ panicked' = r.panic
               /\ UNCHANGED <<mesh, canvas>>
    /\ last' = Call("draw", <<spline, FDiv(conn.width, F(2))>>)
    /\ UNCHANGED <<inputs, outputs, done, zoom, conn, spline, connNode, link,
                   passNodes, passConns, nodeWidget, nodeState, drag, shell, app>>

\* a connection whose cache holds any polyline
InitMesh ==
    \E polyline \in Polylines :
        /\ inputs = <<>>
        /\ outputs = <<>>
        /\ done = FALSE
        /\ panicked = "none"
        /\ zoom = F(1)
        /\ conn = Connection_new(
               Val(Link_new(Absolute(Vec(F(0), F(0))),
                            Absolute(Vec(F(3), F(2))))), Len(polyline))
        /\ spline = polyline
        /\ connNode = <<>>
        /\ link = <<>>
        /\ last = Call("new", <<>>)
        /\ passNodes = <<>>
        /\ passConns = FALSE
        /\ mesh = <<>>
        /\ canvas = <<>>
        /\ NoEvents(Node_new(<<>>, FALSE))

NextMesh ==
    \E origin \in Points : ConnectionDraw(origin)

SpecMesh ==
    InitMesh /\ [][NextMesh]_vars

(***************************************************************************)
(* Properties of the polygon mesh                                          *)
(***************************************************************************)
\* the mesh of the last draw
Drawn ==
    last.op = "draw" /\ panicked = "none"

\* the squared length of a vector
SquaredLength(v) ==
    FAdd(FMul(v.x, v.x), FMul(v.y, v.y))

\* C13: a draw of a polyline of n >= 1 points builds 4(n-1) vertices and
\* 6(n-1) indices; the indices of segment j are 4j, 4j+1, 4j+2, 4j, 4j+2,
\* 4j+3, each below the vertex count; for n = 2 with distinct points the
\* four vertices are the corners of a rectangle along the segment, as long
\* as the segment and 2w high
C13_MeshCounts ==
    (last.op = "draw" /\ Len(spline) >= 1)
        => LET n == Len(spline)
               vertices == mesh[1].vertices
               indices == mesh[1].indices
               w == last.args[2]
           IN /\ panicked = "none"
              /\ Len(vertices) = 4 * (n - 1)
              /\ Len(indices) = 6 * (n - 1)
              /\ \A j \in 0..(n - 2) :
                    SubSeq(indices, 6 * j + 1, 6 * j + 6)
                      = <<4 * j, 4 * j + 1, 4 * j + 2,
                          4 * j, 4 * j + 2, 4 * j + 3>>
              /\ \A i \in 1..Len(indices) :
                    indices[i] >= 0 /\ indices[i] < Len(vertices)
              /\ (n = 2 /\ spline[1] # spline[2]) =>
                    LET along == VSub(spline[2], spline[1])
                        across == VSub(vertices[1], vertices[4])
                    IN /\ VSub(vertices[2], vertices[1]) = along
                       /\ VSub(vertices[3], vertices[4]) = along
                       /\ VSub(vertices[2], vertices[3]) = across
                       /\ dot_vector(along, across) = F(0)
                       /\ SquaredLength(across)
                            = FMul(FMul(F(2), w), FMul(F(2), w))

\* three distinct points drawn: 8 vertices and 12 indices
C13_Witness ==
    /\ Drawn
    /\ Len(spline) = 3
    /\ spline[1] # spline[2] /\ spline[2] # spline[3]
    /\ Len(mesh[1].vertices) = 8
    /\ Len(mesh[1].indices) = 12
    /\ mesh[1].indices[12] = 7

\* the sequence s without its element at index i
RemoveAt(s, i) ==
    SubSeq(s, 1, i - 1) \o SubSeq(s, i + 1, Len(s))

\* C14: a draw of a polyline whose points j and j+1 coincide does not
\* panic; the segment's four vertices all equal that point, its six indices
\* are there, and the other vertices are those of the polyline without the
\* repeated point
C14_CoincidentPointsDrawn ==
    last.op = "draw" =>
        \A j \in 1..(Len(spline) - 1) :
            spline[j] = spline[j + 1] =>
                LET vertices == mesh[1].vertices
                    without == line_to_polygon(RemoveAt(spline, j + 1),
                                               last.args[2])
                IN /\ panicked = "none"
                   /\ normalize_vector(VSub(spline[j + 1], spline[j]))
                        = Vec(F(0), F(0))
                   /\ \A k \in (4 * j - 3)..(4 * j) : vertices[k] = spline[j]
                   /\ Len(mesh[1].indices) = 6 * (Len(spline) - 1)
                   /\ SubSeq(vertices, 1, 4 * j - 4)
                        \o SubSeq(vertices, 4 * j + 1, Len(vertices))
                        = Val(without).vertices

\* a repeated point followed by a segment of length 5
C14_Witness ==
    /\ Drawn
    /\ Len(spline) = 3
    /\ spline[1] = spline[2]
    /\ spline[2] # spline[3]
    /\ mesh[1].vertices[1] = spline[1]
    /\ mesh[1].vertices[5] # mesh[1].vertices[8]

(***************************************************************************)
(* node.rs: Node::on_event, and the MoveNode message it publishes through  *)
(* on_translate in examples/sockets                                        *)
(***************************************************************************)
Events ==
    {"ButtonPressed(Left)", "ButtonReleased(Left)", "CursorMoved", "Other"}

MaxTravel == 8

\* cursor.position(): none when the cursor is unavailable
CursorPoints ==
    { Vec(F(1), F(1)), Vec(F(9), F(1)), Vec(F(5), F(1)) }

Cursors ==
    { <<>> } \cup { <<p>> : p \in CursorPoints }

FLe(a, b) ==
    FLt(a, b) \/ FEq(a, b)

\* Rectangle::contains of the toolkit
Rectangle_contains(rect, point) ==
    /\ FLe(rect.x, point.x)
    /\ FLt(point.x, FAdd(rect.x, rect.width))
    /\ FLe(rect.y, point.y)
    /\ FLt(point.y, FAdd(rect.y, rect.height))

\* on_translate of examples/sockets: move |p| Message::MoveNode(i, p.0, p.1)
MoveNode(i, x, y) ==
    [type |-> "MoveNode", i |-> i, x |-> x, y |-> y]

\* a delta taken from the cursor to the anchor
DragDelta_Reversed(cursor_position, start) ==
    VSub(start, cursor_position)

\* let delta = cursor_position - start
DragDelta(cursor_position, start) ==
    VSub(cursor_position, start)

\* a drag branch that leaves the anchor where the press put it
DragEvent_KeepsAnchor(widget, st, event, cursor_position) ==
    LET start == st.drag_start_position[1]
    IN CASE event = "ButtonReleased(Left)" ->
               [state |-> [drag_start_position |-> <<>>],
                published |-> <<>>, offered |-> <<>>, status |-> "Ignored"]
         [] event = "CursorMoved" ->
               LET delta == DragDelta(cursor_position, start)
               IN [state |-> st,
                   published |-> IF widget.on_translate
                                 THEN <<MoveNode(widget.i, delta.x, delta.y)>>
                                 ELSE <<>>,
                   offered |-> <<>>, status |-> "Captured"]
         [] OTHER ->
               [state |-> st, published |-> <<>>, offered |-> <<>>,
                status |-> "Ignored"]

\* the branch of on_event taken while state.drag_start_position is set
DragEvent(widget, st, event, cursor_position) ==
    LET start == st.drag_start_position[1]
    IN CASE event = "ButtonReleased(Left)" ->
               [state |-> [drag_start_position |-> <<>>],
                published |-> <<>>, offered |-> <<>>, status |-> "Ignored"]
         [] event = "CursorMoved" ->
               LET delta == DragDelta(cursor_position, start)
               IN [state |-> [drag_start_position |-> <<cursor_position>>],
                   published |-> IF widget.on_translate
                                 THEN <<MoveNode(widget.i, delta.x, delta.y)>>
                                 ELSE <<>>,
                   offered |-> <<>>, status |-> "Captured"]
         [] OTHER ->
               [state |-> st, published |-> <<>>, offered |-> <<>>,
                status |-> "Ignored"]

\* the loop over the sockets' contents: child k of the tree is offered the
\* event unless an earlier child captured it; captures[k + 1] is whether
\* child k captures what it is offered (child 0 is the node's content)
RECURSIVE OfferSockets(_, _, _)
OfferSockets(captures, k, acc) ==
    IF k >= Len(captures) \/ acc.status = "Captured" THEN acc
    ELSE OfferSockets(captures, k + 1,
            [offered |-> Append(acc.offered, k),
             status |-> IF captures[k + 1] THEN "Captured" ELSE "Ignored"])

\* the branch of on_event taken while no drag is active
ChildrenEvent(st, captures) ==
    LET acc == OfferSockets(captures, 1,
                   [offered |-> <<0>>,
                    status |-> IF captures[1] THEN "Captured" ELSE "Ignored"])
    IN [state |-> st, published |-> <<>>, offered |-> acc.offered,
        status |-> acc.status]

\* Node::on_event: the new NodeState, the messages published, the children
\* offered the event and the status returned
Node_on_event(widget, st, event, cursor, bounds, captures) ==
    LET first ==
            IF cursor = <<>>
            THEN [state |-> st, published |-> <<>>, offered |-> <<>>,
                  status |-> "Ignored"]
            ELSE IF st.drag_start_position # <<>>
            THEN DragEvent(widget, st, event, cursor[1])
            ELSE ChildrenEvent(st, captures)
    IN IF /\ cursor # <<>>
          /\ first.status = "Ignored"
          /\ Rectangle_contains(bounds, cursor[1])
          /\ event = "ButtonPressed(Left)"
       THEN [first EXCEPT !.state = [drag_start_position |-> cursor],
                          !.status = "Captured"]
       ELSE first

\* the pan/zoom matrix of the application at the current zoom; of the
\* transform only the scale is kept
Matrix ==
    [scale |-> zoom]

Matrix_get_scale(matrix) ==
    matrix.scale

Matrix_translate(matrix, x, y) ==
    matrix

Matrix_scale(matrix, factor) ==
    [scale |-> FMul(matrix.scale, factor)]

\* the other messages of examples/sockets
ScaleChanged(x, y, scale) ==
    [type |-> "ScaleChanged", x |-> x, y |-> y, scale |-> scale]

TranslationChanged(x, y) ==
    [type |-> "TranslationChanged", x |-> x, y |-> y]

Connect(l) ==
    [type |-> "Connect", link |-> l]

Disconnect(endpoint, new_dangling_end_position) ==
    [type |-> "Disconnect", endpoint |-> endpoint,
     new_dangling_end_position |-> new_dangling_end_position]

\* Dangling(Some((source, link))) and Dangling(None)
Dangling(source, l) ==
    [type |-> "Dangling", some |-> <<source, l>>]

DanglingNone ==
    [type |-> "Dangling", some |-> <<>>]

\* Link::unwrap_sockets
Link_unwrap_sockets(l) ==
    IF IsSocket(l.start) /\ IsSocket(l.end)
    THEN Ok(<<l.start, l.end>>)
    ELSE Panic("unwrap_sockets on absolute endpoints")

\* HashMap::remove and HashMap::insert on the connections
MapRemove(map, key) ==
    [k \in DOMAIN map \ {key} |-> map[k]]

MapInsert(map, key, value) ==
    [k \in DOMAIN map \cup {key} |-> IF k = key THEN value ELSE map[k]]

\* the Message::Connect arm of update
Example_connect(example, l) ==
    LET sockets == Link_unwrap_sockets(l)
    IN IF ~sockets.ok THEN Panic(sockets.panic)
       ELSE LET start == Val(sockets)[1]
                end == Val(sockets)[2]
            IN Ok([example EXCEPT !.connections =
                     MapInsert(@, <<end.node_index, end.socket_index>>,
                               <<start.node_index, start.socket_index>>)])

\* a disconnect that sets the dangling fields and keeps the connection
Example_disconnect_KeepsConnection(example, endpoint, point) ==
    LET key == <<endpoint.node_index, endpoint.socket_index>>
    IN IF key \notin DOMAIN example.connections THEN Ok(example)
       ELSE LET start == example.connections[key]
                new_dangling_source == Socket(start[1], "Out", start[2])
                l == Link_from_unordered(new_dangling_source, Absolute(point))
            IN IF ~l.ok THEN Panic(l.panic)
               ELSE Ok([example EXCEPT
                          !.dangling_source = <<new_dangling_source>>,
                          !.dangling_connection = <<Val(l)>>])

\* the Message::Disconnect arm of update
Example_disconnect(example, endpoint, point) ==
    LET key == <<endpoint.node_index, endpoint.socket_index>>
    IN IF key \notin DOMAIN example.connections THEN Ok(example)
       ELSE LET start == example.connections[key]
                new_dangling_source == Socket(start[1], "Out", start[2])
                l == Link_from_unordered(new_dangling_source, Absolute(point))
            IN IF ~l.ok THEN Panic(l.panic)
               ELSE Ok([example EXCEPT
                          !.connections = MapRemove(@, key),
                          !.dangling_source = <<new_dangling_source>>,
                          !.dangling_connection = <<Val(l)>>])

\* the Message::MoveNode arm of update
Example_move_node(example, matrix, i, x, y) ==
    IF i >= Len(example.nodes) THEN Panic("index out of bounds")
    ELSE Ok([example EXCEPT !.nodes[i + 1].position =
               Vec(FAdd(@.x, FDiv(x, Matrix_get_scale(matrix))),
                   FAdd(@.y, FDiv(y, Matrix_get_scale(matrix))))])

\* the factor of a ScaleChanged
ZoomFactor(scale) ==
    IF FLt(F(0), scale) THEN Frac(12, 10) ELSE FDiv(F(1), Frac(12, 10))

\* Example::update: the application and its matrix after the message, or
\* the panic
Example_update(example, matrix, message) ==
    LET Same(r) == IF r.ok THEN Ok([example |-> Val(r), matrix |-> matrix])
                   ELSE r
    IN CASE message.type = "ScaleChanged" ->
              Ok([example |-> example,
                  matrix |-> Matrix_translate(
                      Matrix_scale(Matrix_translate(matrix, FNeg(message.x),
                                                    FNeg(message.y)),
                                   ZoomFactor(message.scale)),
                      message.x, message.y)])
         [] message.type = "TranslationChanged" ->
              Ok([example |-> example,
                  matrix |-> Matrix_translate(matrix, message.x, message.y)])
         [] message.type = "MoveNode" ->
              Same(Example_move_node(example, matrix, message.i, message.x,
                                     message.y))
         [] message.type = "Connect" ->
              Same(Example_connect(example, message.link))
         [] message.type = "Disconnect" ->
              Same(Example_disconnect(example, message.endpoint,
                                      message.new_dangling_end_position))
         [] message.type = "Dangling" /\ message.some # <<>> ->
              Ok([example |-> [example EXCEPT
                                 !.dangling_source = <<message.some[1]>>,
                                 !.dangling_connection = <<message.some[2]>>],
                  matrix |-> matrix])
         [] message.type = "Dangling" /\ message.some = <<>> ->
              Ok([example |-> [example EXCEPT !.dangling_source = <<>>,
                                              !.dangling_connection = <<>>],
                  matrix |-> matrix])

\* the bounds of the layout node that the node widget was given
NodeBounds ==
    Node_layout(MkNode(nodeWidget.sockets,
                       app.nodes[nodeWidget.i + 1].position), zoom).bounds

\* the zooms explored
ZoomRange ==
    Scales \cup { Frac(5, 6), Frac(6, 5) }

\* the positions explored
InReach(position) ==
    /\ FLe(F(0 - MaxTravel), position.x) /\ FLe(position.x, F(MaxTravel))
    /\ FLe(F(0 - MaxTravel), position.y) /\ FLe(position.y, F(MaxTravel))

\* the sum of the (x, y) of the messages published
RECURSIVE Travel(_)
Travel(published) ==
    IF published = <<>> THEN Vec(F(0), F(0))
    ELSE VAdd(Vec(Head(published).x, Head(published).y),
              Travel(Tail(published)))

\* the record of the drag after an on_event call that found the record d:
\* a left press that sets the anchor opens a drag at the cursor; while the
\* anchor is set a CursorMoved with a cursor position moves the pointer
\* there, and the deltas published add to the sum; the record ends with the
\* drag, when the anchor is cleared
DragRecord(d, st, event, cursor, r) ==
    IF /\ event = "ButtonPressed(Left)"
       /\ r.status = "Captured"
       /\ r.state.drag_start_position # <<>>
    THEN [press |-> cursor, at |-> cursor, sum |-> Vec(F(0), F(0))]
    ELSE IF r.state.drag_start_position = <<>>
    THEN [press |-> <<>>, at |-> <<>>, sum |-> Vec(F(0), F(0))]
    ELSE [press |-> d.press,
          at |-> IF /\ st.drag_start_position # <<>>
                    /\ event = "CursorMoved"
                    /\ cursor # <<>>
                 THEN cursor ELSE d.at,
          sum |-> VAdd(d.sum, Travel(r.published))]

\* an event delivered to the node, once the messages of the last one are
\* processed; the call is recorded with the NodeState it found
OnEvent(event, layout, cursor, captures) ==
    /\ panicked = "none"
    /\ shell = <<>>
    /\ \E r \in { Node_on_event(nodeWidget, nodeState, event, cursor,
                                  layout, captures) } :
          /\ nodeState' = r.state
          /\ drag' = DragRecord(drag, nodeState, event, cursor, r)
          /\ shell' = shell \o r.published
          /\ last' = Call("on_event", <<event, cursor, captures, r.status,
                                        r.offered, r.published, nodeState>>)
    /\ UNCHANGED <<inputs, outputs, done, panicked, zoom, conn, spline,
                   connNode, link, passNodes, passConns, mesh, nodeWidget,
                   app, canvas>>

\* Example::update on a message; the call is recorded with the application
\* it found
Update(message) ==
    /\ panicked = "none"
    /\ \E r \in { Example_update(app, Matrix, message) } :
          IF r.ok
          THEN /\ \A i \in 1..Len(Val(r).example.nodes) :
                     Val(r).example.nodes[i].position # app.nodes[i].position
                        => InReach(Val(r).example.nodes[i].position)
               /\ Val(r).matrix.scale \in ZoomRange
               /\ app' = Val(r).example
               /\ zoom' = Val(r).matrix.scale
               /\ UNCHANGED panicked
          ELSE /\ panicked' = r.panic
               /\ UNCHANGED <<app, zoom>>
    /\ last' = Call("update", <<message, app>>)
    /\ UNCHANGED <<inputs, outputs, done, conn, spline, connNode, link,
                   passNodes, passConns, mesh, nodeWidget, nodeState, drag,
                   canvas>>

\* the runtime hands the first published message to Example::update
Deliver ==
    /\ shell # <<>>
    /\ Update(Head(shell))
    /\ shell' = Tail(shell)

\* node #0 of the application with MaxSockets sockets, at any zoom, with
\* and without on_translate
InitNode ==
    \E scale \in Scales, on_translate \in BOOLEAN :
        /\ InitWith(Connection_new(
               Val(Link_new(Absolute(Vec(F(0), F(0))),
                            Absolute(Vec(F(3), F(2))))), 2), scale)
        /\ NoEvents(Node_new([k \in 1..MaxSockets |-> make_socket("Out")],
                             on_translate))

NextNode ==
    \/ \E layout \in { NodeBounds } :
          \E event \in Events, cursor \in Cursors,
             captures \in [1..(1 + Len(nodeWidget.sockets)) -> BOOLEAN] :
               OnEvent(event, layout, cursor, captures)
    \/ Deliver

SpecNode ==
    InitNode /\ [][NextNode]_vars

(***************************************************************************)
(* Properties of Node::on_event.  After an on_event call, last.args holds  *)
(* the event, the cursor, which children capture, the status returned, the *)
(* children offered, the messages published and the NodeState found.       *)
(***************************************************************************)
Delivered(event) ==
    last.op = "on_event" /\ last.args[1] = event

\* the anchor the last on_event call found
AnchorBefore ==
    last.args[7].drag_start_position

\* a pointer move delivered with the cursor at a position while the anchor
\* is set
MovedWhileDragging ==
    /\ Delivered("CursorMoved")
    /\ last.args[2] # <<>>
    /\ AnchorBefore # <<>>

\* C15: a pointer move delivered while the anchor is set to a node with
\* on_translate publishes the translate message carrying (cursor - anchor) divided by the zoom, sets
\* the anchor to the cursor position and returns Captured
C15_MoveEmitsScaledDelta ==
    (MovedWhileDragging /\ nodeWidget.on_translate) =>
        LET delta == VSub(last.args[2][1], AnchorBefore[1])
        IN /\ last.args[6] = <<MoveNode(nodeWidget.i, FDiv(delta.x, zoom),
                                        FDiv(delta.y, zoom))>>
           /\ nodeState.drag_start_position = last.args[2]
           /\ last.args[4] = "Captured"

\* C15 as the code has it: the node publishes the unscaled (cursor -
\* anchor), and only with on_translate set; it sets the anchor to the cursor
\* position and returns Captured; the division by the zoom is done by
\* Example::update, which adds the message's delta over the scale to the
\* position of node i
C15_MoveEmitsRawDelta ==
    /\ MovedWhileDragging =>
          LET delta == VSub(last.args[2][1], AnchorBefore[1])
          IN /\ last.args[6] = IF nodeWidget.on_translate
                                THEN <<MoveNode(nodeWidget.i, delta.x, delta.y)>>
                                ELSE <<>>
             /\ nodeState.drag_start_position = last.args[2]
             /\ last.args[4] = "Captured"
    /\ (last.op = "update" /\ last.args[1].type = "MoveNode") =>
          LET message == last.args[1]
              before == last.args[2].nodes[message.i + 1].position
          IN app.nodes[message.i + 1].position
               = Vec(FAdd(before.x, FDiv(message.x, zoom)),
                     FAdd(before.y, FDiv(message.y, zoom)))

\* at zoom 2 a move of 8 to the right is published as 8 and moves the node
\* by 4
C15_Witness ==
    /\ last.op = "update"
    /\ zoom = F(2)
    /\ last.args[1] = MoveNode(0, F(8), F(0))
    /\ app.nodes[1].position.x = FAdd(last.args[2].nodes[1].position.x, F(4))

\* C16: after a left release is delivered, whatever the cursor, the anchor
\* is unset
C16_ReleaseClearsAnchor ==
    Delivered("ButtonReleased(Left)") => nodeState.drag_start_position = <<>>

\* C16 for a cursor that has a position; and only a move that found the
\* anchor set publishes
C16_ReleaseWithCursorClearsAnchor ==
    /\ (Delivered("ButtonReleased(Left)") /\ last.args[2] # <<>>)
          => nodeState.drag_start_position = <<>>
    /\ (last.op = "on_event" /\ last.args[6] # <<>>)
          => (MovedWhileDragging /\ nodeWidget.on_translate)

\* a drag ended by a release with the cursor at a position
C16_ReleaseWithCursorWitness ==
    /\ Delivered("ButtonReleased(Left)")
    /\ last.args[2] # <<>>
    /\ AnchorBefore # <<>>
    /\ nodeState.drag_start_position = <<>>

\* the children offered an event that nobody holds: the content, then the
\* sockets in order up to the first child that captures
RECURSIVE FirstRefusal(_, _)
FirstRefusal(captures, k) ==
    IF k > Len(captures) THEN <<>>
    ELSE IF captures[k] THEN <<k - 1>>
    ELSE <<k - 1>> \o FirstRefusal(captures, k + 1)

\* the last call set the anchor
AnchorSet ==
    /\ last.op = "on_event"
    /\ nodeState.drag_start_position # <<>>
    /\ nodeState.drag_start_position # AnchorBefore

\* the anchor is set to the cursor, capturing, only by a left press inside
\* the bounds that no child captured
AnchorSetByFreePress ==
    AnchorSet =>
        /\ Delivered("ButtonPressed(Left)")
        /\ last.args[2] # <<>>
        /\ Rectangle_contains(NodeBounds, last.args[2][1])
        /\ \A k \in 1..Len(last.args[5]) : ~last.args[3][last.args[5][k] + 1]
        /\ nodeState.drag_start_position = last.args[2]
        /\ last.args[4] = "Captured"

\* C17: an event delivered while no drag is active is offered to the
\* content and then to the sockets in order up to the first that captures;
\* the anchor is set only by a left press inside the bounds that no child
\* captured; an event delivered while a drag is active is offered to no
\* child
C17_ChildrenFirst ==
    last.op = "on_event" =>
        /\ AnchorBefore = <<>> => last.args[5] = FirstRefusal(last.args[3], 1)
        /\ AnchorBefore = <<>> => AnchorSetByFreePress
        /\ AnchorBefore # <<>> => last.args[5] = <<>>

\* C17 for a cursor that has a position
C17_ChildrenFirstWithCursor ==
    (last.op = "on_event" /\ last.args[2] # <<>>) =>
        /\ AnchorBefore = <<>> => last.args[5] = FirstRefusal(last.args[3], 1)
        /\ AnchorBefore = <<>> => AnchorSetByFreePress
        /\ AnchorBefore # <<>> => last.args[5] = <<>>

\* a press that the content ignored and the first socket captured
C17_WithCursorWitness ==
    /\ Delivered("ButtonPressed(Left)")
    /\ last.args[2] # <<>>
    /\ Rectangle_contains(NodeBounds, last.args[2][1])
    /\ AnchorBefore = <<>>
    /\ last.args[5] = <<0, 1>>
    /\ last.args[4] = "Captured"
    /\ nodeState.drag_start_position = <<>>

(***************************************************************************)
(* node.rs: Node::draw, on the layout tree that Node::layout returned      *)
(***************************************************************************)
Size(width, height) ==
    [width |-> width, height |-> height]

\* a node whose content and socket contents have the given intrinsic sizes
Node_sized(sockets, content, socket_content_width) ==
    [i |-> 0, sockets |-> sockets, on_translate |-> FALSE,
     content |-> content, socket_content_width |-> socket_content_width]

\* the layout tree of the node: its bounds, the bounds of the content, and
\* for each socket the bounds of its row and of the one child of the row,
\* which keeps the unscaled size of the socket's content
LayoutTree(widget, position, scale) ==
    LET r == Node_layout(MkNode(widget.sockets, position), scale)
    IN [bounds |-> r.bounds,
        content |-> widget.content,
        sockets |-> [k \in 1..Len(r.rows) |->
            [bounds |-> RectTranslate(r.rows[k],
                                      Vec(r.bounds.x, r.bounds.y)),
             child |-> Size(widget.socket_content_width,
                            widget.sockets[k].content_height)]]]

\* the check before the node content is drawn
ContentFits(bounds, content) ==
    /\ FLt(content.width, bounds.width)
    /\ FLt(content.height, bounds.height)

\* a socket check that is the check of the node content
SocketContentFits_SameRule(socket_bounds, child) ==
    ContentFits(socket_bounds, child)

\* the check before a socket's content is drawn
SocketContentFits(socket_bounds, child) ==
    /\ FLt(child.width, socket_bounds.width)
    /\ FLt(child.height, FMul(socket_bounds.height, F(2)))

\* the loop over the socket rows, from socket k (1-based) on
RECURSIVE DrawSockets(_, _, _)
DrawSockets(widget, layout, k) ==
    IF k > Len(layout.sockets) THEN <<>>
    ELSE LET socket_layout == layout.sockets[k]
             blob == blob_rect(widget.sockets[k], layout.bounds.x,
                               layout.bounds.width,
                               center_y(socket_layout.bounds))
         IN (IF SocketContentFits(socket_layout.bounds, socket_layout.child)
             THEN <<[draw |-> "content", child |-> k]>>
             ELSE <<>>)
            \o <<[draw |-> "blob", child |-> k, bounds |-> blob]>>
            \o DrawSockets(widget, layout, k + 1)

\* Node::draw: what is handed to the renderer, in order; framed is whether
\* the style has a background or a border
Node_draw(widget, layout, framed) ==
    (IF framed THEN <<[draw |-> "frame", bounds |-> layout.bounds]>> ELSE <<>>)
    \o (IF ContentFits(layout.bounds, layout.content)
        THEN <<[draw |-> "content", child |-> 0]>>
        ELSE <<>>)
    \o DrawSockets(widget, layout, 1)

\* the zooms at which nodes are drawn
DrawScales ==
    { Frac(1, 2), Frac(3, 4), F(1), F(2) }

\* intrinsic sizes of the node content and widths of the socket contents
ContentSizes ==
    { Size(F(4), F(2)), Size(F(6), F(2)) }

SocketContentWidths ==
    { F(2), F(6) }

\* the Layout handed to draw: the layout tree at the offset of the parent
\* container, which every bounds() of the tree includes
LayoutAt(layout, offset) ==
    [bounds |-> RectTranslate(layout.bounds, offset),
     content |-> layout.content,
     sockets |-> [k \in 1..Len(layout.sockets) |->
         [bounds |-> RectTranslate(layout.sockets[k].bounds, offset),
          child |-> layout.sockets[k].child]]]

\* offsets of the parent container
ParentOffsets ==
    { Vec(F(0), F(0)), Vec(F(3), F(2)) }

\* a socket list with the roles interleaved and both blob sides in each role
InterleavedSockets ==
    << MkSocket("In", "Right"), MkSocket("Out", "Left"),
       MkSocket("In", "Left"), MkSocket("Out", "Right") >>

\* the node widget as Node::layout sees it, at its position in the application
WidgetNode ==
    MkNode(nodeWidget.sockets, app.nodes[nodeWidget.i + 1].position)

NodeDraw(framed, offset) ==
    /\ panicked = "none"
    /\ \E layout \in { LayoutAt(LayoutTree(nodeWidget,
                                   app.nodes[nodeWidget.i + 1].position,
                                   zoom), offset) } :
          /\ canvas' = Node_draw(nodeWidget, layout, framed)
          /\ last' = Call("Node::draw", <<layout, offset>>)
    /\ UNCHANGED <<inputs, outputs, done, panicked, zoom, conn, spline,
                   connNode, link, passNodes, passConns, mesh, nodeWidget,
                   nodeState, drag, shell, app>>

InitNodeDraw ==
    \E sockets \in SampleSockets \cup { InterleavedSockets },
       scale \in DrawScales, content \in ContentSizes,
       width \in SocketContentWidths, i \in 0..2 :
        /\ InitWith(Connection_new(
               Val(Link_new(Absolute(Vec(F(0), F(0))),
                            Absolute(Vec(F(3), F(2))))), 2), scale)
        /\ NoEvents([Node_sized(sockets, content, width) EXCEPT !.i = i])

\* the passes of the graph container over one node: clear, layout, draw
NextNodeDraw ==
    \/ Clear
    \/ NodeLayout(WidgetNode, zoom)
    \/ \E framed \in BOOLEAN, offset \in ParentOffsets : NodeDraw(framed, offset)

SpecNodeDraw ==
    InitNodeDraw /\ [][NextNodeDraw]_vars

(***************************************************************************)
(* Properties of Node::draw                                                *)
(***************************************************************************)
NodeDrawn ==
    last.op = "Node::draw"

\* the content of child k (0 is the node content) was handed to the renderer
ContentDrawn(k) ==
    \E n \in 1..Len(canvas) :
        canvas[n] = [draw |-> "content", child |-> k]

BlobDrawn(k) ==
    \E n \in 1..Len(canvas) :
        canvas[n].draw = "blob" /\ canvas[n].child = k

\* box is strictly larger than inner in width and in height
StrictlyLarger(box, inner) ==
    FLt(inner.width, box.width) /\ FLt(inner.height, box.height)

\* C18: in a drawn node each socket's content is drawn if and only if the
\* row allotted to it is strictly larger than the content's bounds in
\* width and in height, the rule of the node content; each socket's blob
\* is drawn whatever the check gives
C18_SocketContentSameRule ==
    NodeDrawn =>
        LET layout == last.args[1]
        IN /\ ContentDrawn(0) <=> StrictlyLarger(layout.bounds, layout.content)
           /\ \A k \in 1..Len(layout.sockets) :
                 /\ ContentDrawn(k) <=> StrictlyLarger(layout.sockets[k].bounds,
                                                       layout.sockets[k].child)
                 /\ BlobDrawn(k)

\* C18 as the code has it: a socket's content is drawn if and only if its
\* row is strictly wider than the content and twice the row's height is
\* strictly more than the content's height; the node content is drawn if
\* and only if the node's bounds are strictly larger in width and height;
\* each socket's blob is drawn whatever the check gives
C18_SocketContentDoubledHeight ==
    NodeDrawn =>
        LET layout == last.args[1]
        IN /\ ContentDrawn(0) <=> StrictlyLarger(layout.bounds, layout.content)
           /\ \A k \in 1..Len(layout.sockets) :
                 LET row == layout.sockets[k].bounds
                     child == layout.sockets[k].child
                 IN /\ ContentDrawn(k) <=>
                          /\ FLt(child.width, row.width)
                          /\ FLt(child.height, FAdd(row.height, row.height))
                    /\ BlobDrawn(k)

\* at zoom 1 a socket row is as high as its content, which is drawn
C18_Witness ==
    /\ NodeDrawn
    /\ zoom = F(1)
    /\ Len(last.args[1].sockets) = 3
    /\ last.args[1].sockets[1].bounds.height = last.args[1].sockets[1].child.height
    /\ ContentDrawn(0)
    /\ ContentDrawn(1)
    /\ BlobDrawn(3)

(***************************************************************************)
(* examples/sockets: Example::update on the messages of the graph          *)
(* container, and Example::view                                            *)
(***************************************************************************)
DEFAULT_NUMBER_OF_SEGMENTS == 20

\* the node widget that view builds for node i: the In sockets, then the
\* Out sockets
Example_view_node(example, i) ==
    LET n == example.nodes[i + 1]
    IN [kind |-> "node", i |-> i, position |-> n.position,
        sockets |-> [k \in 1..n.sockets[1] |-> make_socket("In")]
                    \o [k \in 1..n.sockets[2] |-> make_socket("Out")]]

\* the connection widget that view builds for the entry at key
Example_view_connection(example, key) ==
    LET start == example.connections[key]
    IN [kind |-> "connection",
        connection |-> Connection_new(
            Val(Link_from_unordered(Socket(start[1], "Out", start[2]),
                                    Socket(key[1], "In", key[2]))),
            DEFAULT_NUMBER_OF_SEGMENTS)]

\* the connection widget that view builds for the dangling connection
Example_view_dangling(example) ==
    IF example.dangling_connection = <<>> THEN <<>>
    ELSE <<[kind |-> "connection",
            connection |-> Connection_new(example.dangling_connection[1],
                                          DEFAULT_NUMBER_OF_SEGMENTS)]>>

\* a view that pushes the dangling connection before the nodes
Example_view_DanglingFirst(example, order) ==
    Example_view_dangling(example)
    \o [i \in 1..Len(example.nodes) |-> Example_view_node(example, i - 1)]
    \o [k \in 1..Len(order) |-> Example_view_connection(example, order[k])]

\* Example::view: graph_content, with the connections in the order in
\* which the HashMap iterates
Example_view(example, order) ==
    [i \in 1..Len(example.nodes) |-> Example_view_node(example, i - 1)]
    \o [k \in 1..Len(order) |-> Example_view_connection(example, order[k])]
    \o Example_view_dangling(example)

\* the orders in which a HashMap of these keys can iterate
IterationOrders(keys) ==
    { order \in [1..Cardinality(keys) -> keys] :
        \A a, b \in 1..Cardinality(keys) : order[a] = order[b] => a = b }

\* messages of the graph container and of the nodes
SampleMessages ==
    { Connect(Val(Link_new(Endpoint_start(0, 0), Endpoint_end(1, 0)))),
      Connect(Val(Link_new(Endpoint_start(1, 0), Endpoint_end(2, 1)))),
      Disconnect(Endpoint_end(1, 0), Vec(F(3), F(2))),
      Disconnect(Endpoint_end(2, 0), Vec(F(3), F(2))),
      Disconnect(Endpoint_end(2, 1), Vec(F(0), F(0))),
      Dangling(Endpoint_start(0, 0),
               Val(Link_from_unordered(Endpoint_start(0, 0),
                                       Absolute(Vec(F(3), F(2)))))),
      Dangling(Endpoint_end(2, 1),
               Val(Link_from_unordered(Endpoint_end(2, 1),
                                       Absolute(Vec(F(0), F(0)))))),
      DanglingNone,
      MoveNode(0, F(MaxTravel), F(0)),
      ScaleChanged(F(3), F(2), F(1)),
      ScaleChanged(F(3), F(2), F(-1)),
      TranslationChanged(F(3), F(2)) }

\* Example::view; the call is recorded with the elements it returned
View(order) ==
    /\ panicked = "none"
    /\ last' = Call("view", <<Example_view(app, order)>>)
    /\ UNCHANGED <<inputs, outputs, done, panicked, zoom, conn, spline,
                   connNode, link, passNodes, passConns, mesh, nodeWidget,
                   nodeState, drag, shell, app, canvas>>

InitApp ==
    /\ InitWith(Connection_new(
          Val(Link_new(Absolute(Vec(F(0), F(0))), Absolute(Vec(F(3), F(2))))),
          2), F(1))
    /\ NoEvents(Node_new(<<>>, FALSE))

NextApp ==
    \/ \E message \in SampleMessages : Update(message) /\ UNCHANGED shell
    \/ \E order \in IterationOrders(DOMAIN app.connections) : View(order)

SpecApp ==
    InitApp /\ [][NextApp]_vars

(***************************************************************************)
(* Properties of the example application.  After an update, last.args      *)
(* holds the message and the application found; after a view, the          *)
(* elements returned.                                                      *)
(***************************************************************************)
\* the last call was update on a Disconnect
Disconnected ==
    last.op = "update" /\ last.args[1].type = "Disconnect"

\* C19: update on Disconnect(endpoint, p) for an In endpoint at which a
\* connection ends removes exactly that connection, sets dangling_source to
\* the connection's start with role Out and dangling_connection to the link
\* from that socket to the absolute point p; when no connection ends at
\* the endpoint, the connections and both dangling fields are unchanged
C19_DisconnectMakesDangling ==
    (Disconnected /\ last.args[1].endpoint.role = "In") =>
        LET before == last.args[2]
            endpoint == last.args[1].endpoint
            p == last.args[1].new_dangling_end_position
            key == <<endpoint.node_index, endpoint.socket_index>>
        IN /\ panicked = "none"
           /\ app.nodes = before.nodes
           /\ IF key \in DOMAIN before.connections
              THEN LET source == Socket(before.connections[key][1], "Out",
                                        before.connections[key][2])
                   IN /\ DOMAIN app.connections
                           = DOMAIN before.connections \ {key}
                      /\ \A k \in DOMAIN app.connections :
                            app.connections[k] = before.connections[k]
                      /\ app.dangling_source = <<source>>
                      /\ app.dangling_connection
                           = <<[start |-> source, end |-> Absolute(p)]>>
              ELSE /\ app.connections = before.connections
                   /\ app.dangling_source = before.dangling_source
                   /\ app.dangling_connection = before.dangling_connection

\* a disconnect at In socket 0 of node 2, fed by Out socket 1 of node 1,
\* while another connection stays
C19_Witness ==
    /\ Disconnected
    /\ last.args[1].endpoint = Endpoint_end(2, 0)
    /\ <<2, 0>> \in DOMAIN last.args[2].connections
    /\ <<2, 0>> \notin DOMAIN app.connections
    /\ DOMAIN app.connections # {}
    /\ app.dangling_source = <<Endpoint_start(1, 1)>>

\* a disconnect at an In socket where no connection ends
C19_WitnessUnconnected ==
    /\ Disconnected
    /\ last.args[1].endpoint = Endpoint_end(2, 1)
    /\ <<2, 1>> \notin DOMAIN last.args[2].connections
    /\ app.dangling_connection # <<>>

\* the link that view declares for the connection at key
DeclaredLink(key) ==
    [start |-> Socket(app.connections[key][1], "Out", app.connections[key][2]),
     end |-> Socket(key[1], "In", key[2])]

\* C20: whatever messages the application has processed, the elements
\* that view returns are the node elements in the order of nodes, then one
\* connection for each declared connection, then the dangling connection,
\* if there is one, as the last element; no node follows a connection
C20_ViewOrder ==
    last.op = "view" =>
        LET elements == last.args[1]
            n == Len(app.nodes)
            c == Cardinality(DOMAIN app.connections)
            d == IF app.dangling_connection = <<>> THEN 0 ELSE 1
        IN /\ Len(elements) = n + c + d
           /\ \A i \in 1..n :
                 /\ elements[i].kind = "node"
                 /\ elements[i].i = i - 1
                 /\ elements[i].position = app.nodes[i].position
           /\ \A k \in (n + 1)..(n + c) : elements[k].kind = "connection"
           /\ { elements[k].connection.link : k \in (n + 1)..(n + c) }
                 = { DeclaredLink(key) : key \in DOMAIN app.connections }
           /\ d = 1 =>
                 /\ elements[n + c + 1].kind = "connection"
                 /\ elements[n + c + 1].connection.link
                      = app.dangling_connection[1]
           /\ \A a, b \in 1..Len(elements) :
                 (a < b /\ elements[a].kind = "connection")
                    => elements[b].kind # "node"

\* a view of three nodes, three connections and a dangling connection,
\* after a disconnect and two connects
C20_Witness ==
    /\ last.op = "view"
    /\ Len(last.args[1]) = 7
    /\ last.args[1][3].kind = "node"
    /\ last.args[1][4].kind = "connection"
    /\ app.dangling_connection # <<>>
    /\ last.args[1][7].connection.link = app.dangling_connection[1]

(***************************************************************************)
(* Properties of the socket state as Node::layout, Connection::layout and  *)
(* Node::draw share it                                                     *)
(***************************************************************************)
\* the 1-based place of socket k of the list among the sockets of its role
RoleIndex(sockets, k) ==
    CountRole(SubSeq(sockets, 1, k - 1), sockets[k].role) + 1

\* what the socket state holds for pass node i at the place of socket k
StoredRect(i, k) ==
    LET sockets == passNodes[i].node.sockets
    IN (IF sockets[k].role = "In" THEN inputs ELSE outputs)[i][RoleIndex(sockets, k)]

\* the center of the blob of socket k of the node at the scale: on the side
\* blob_side names, at the height of the middle of the socket's row
BlobCenter(node, scale, k) ==
    LET row == Node_layout(node, scale).rows[k]
    IN Vec(FAdd(FMul(node.position.x, scale),
                IF node.sockets[k].blob_side = "Left" THEN F(0)
                ELSE FMul(node.frame.width, scale)),
           FAdd(FMul(node.position.y, scale), center_y(row)))

\* C21: for every node laid out in the pass and every socket k of it, the
\* sequence of the socket's role holds, at the index that counts the earlier
\* sockets of that role, the rectangle of that very socket (its blob, on
\* its blob_side, at the height of row k), and the endpoint (node_index,
\* role, socket_index) with that index resolves to its center
C21_SocketIndexCountsRole ==
    \A i \in 1..Len(passNodes) :
        LET node == passNodes[i].node
            scale == passNodes[i].scale
        IN \A k \in 1..Len(node.sockets) :
              LET role == node.sockets[k].role
                  j == RoleIndex(node.sockets, k)
                  c == BlobCenter(node, scale, k)
              IN /\ j <= Len((IF role = "In" THEN inputs ELSE outputs)[i])
                 /\ center_x(StoredRect(i, k)) = c.x
                 /\ center_y(StoredRect(i, k)) = c.y
                 /\ StoredRect(i, k).width = FMul(node.sockets[k].blob_radius, F(2))
                 /\ Endpoint_resolve(Socket(i - 1, role, j - 1), scale,
                                     inputs, outputs) = Ok(c)

\* the node with the roles interleaved laid out: its third socket is the
\* second In socket and its fourth the second Out socket
C21_Witness ==
    /\ last.op = "node"
    /\ panicked = "none"
    /\ passNodes[1].node.sockets = InterleavedSockets
    /\ Len(inputs[1]) = 2
    /\ Len(outputs[1]) = 2
    /\ inputs[1][2] = StoredRect(1, 3)
    /\ outputs[1][2] = StoredRect(1, 4)
    /\ inputs[1][1] # inputs[1][2]

\* C22: every connection layout, whether it returns or panics, leaves done
\* true and inputs and outputs as they were; done goes from true to false
\* in a clear only
C22_ConnectionSetsDoneOnly ==
    [][/\ last'.op = "connection"
            => (done' /\ inputs' = inputs /\ outputs' = outputs)
       /\ (done /\ ~done') => last'.op = "clear"]_vars

\* a connection laid out after MaxNodes nodes, when a connection of an
\* earlier pass had left other points in the cache
C22_Witness ==
    /\ last.op = "connection"
    /\ panicked = "none"
    /\ done
    /\ Len(inputs) = MaxNodes
    /\ last.args[4]

\* a connection layout that panicked in resolve: done is set all the same
C22_WitnessPanicked ==
    /\ last.op = "connection"
    /\ panicked # "none"
    /\ done

\* C23: when a node that the pass has laid out is drawn, the blob painted
\* for each socket is the rectangle the socket state holds for that socket,
\* moved by the offset of the parent container, and the socket's endpoint
\* resolves to the center of the painted blob less that offset
C23_DrawnBlobIsPublishedBlob ==
    (NodeDrawn /\ passNodes # <<>>) =>
        LET i == Len(passNodes)
            offset == last.args[2]
            sockets == nodeWidget.sockets
        IN /\ passNodes[i] = [node |-> WidgetNode, scale |-> zoom]
           /\ \A k \in 1..Len(sockets) :
                 /\ BlobDrawn(k)
                 /\ \A n \in 1..Len(canvas) :
                       (canvas[n].draw = "blob" /\ canvas[n].child = k)
                       => /\ canvas[n].bounds = RectTranslate(StoredRect(i, k), offset)
                          /\ Endpoint_resolve(
                                 Socket(i - 1, sockets[k].role,
                                        RoleIndex(sockets, k) - 1),
                                 zoom, inputs, outputs)
                             = Ok(VSub(Vec(center_x(canvas[n].bounds),
                                           center_y(canvas[n].bounds)), offset))

\* node #1 of the application, at (250, 250), with the interleaved sockets,
\* laid out at zoom 1/2 and drawn in a parent that is offset
C23_Witness ==
    /\ NodeDrawn
    /\ passNodes # <<>>
    /\ nodeWidget.i = 1
    /\ nodeWidget.sockets = InterleavedSockets
    /\ zoom = Frac(1, 2)
    /\ last.args[2] = Vec(F(3), F(2))
    /\ BlobDrawn(4)

(***************************************************************************)
(* Properties of one drag of a node                                        *)
(***************************************************************************)
\* C24: in a node with on_translate set, from the left press that set the
\* anchor on, the deltas published so far add up to the cursor position of
\* the last pointer-move less the position of the press, and while the
\* anchor is set it is that last cursor position
C24_DeltasSumToTravel ==
    (nodeWidget.on_translate /\ drag.press # <<>>) =>
        /\ drag.sum = VSub(drag.at[1], drag.press[1])
        /\ nodeState.drag_start_position # <<>>
              => nodeState.drag_start_position = drag.at

\* a drag of at least two moves: the move before the last one had taken the
\* anchor away from the press, and the pointer ends away from the press
C24_Witness ==
    /\ nodeWidget.on_translate
    /\ Delivered("CursorMoved")
    /\ drag.press # <<>>
    /\ AnchorBefore # <<>>
    /\ AnchorBefore # drag.press
    /\ AnchorBefore # drag.at
    /\ drag.at # drag.press
    /\ drag.sum # Vec(F(0), F(0))

(***************************************************************************)
(* Properties of draw_buffers                                              *)
(***************************************************************************)
\* the least and the greatest coordinate of the vertices along one axis
LeastOf(values) ==
    CHOOSE v \in values : \A w \in values : ~FLt(w, v)

GreatestOf(values) ==
    CHOOSE v \in values : \A w \in values : ~FLt(v, w)

\* the bounding box of the vertices of the mesh of the last draw
VertexBox ==
    LET vertices == mesh[1].vertices
        xs == { vertices[k].x : k \in 1..Len(vertices) }
        ys == { vertices[k].y : k \in 1..Len(vertices) }
    IN Rect(LeastOf(xs), LeastOf(ys),
            FSub(GreatestOf(xs), LeastOf(xs)),
            FSub(GreatestOf(ys), LeastOf(ys)))

\* both extents of the box are at least 1.0
AtLeastOne(box) ==
    ~FLt(box.width, F(1)) /\ ~FLt(box.height, F(1))

\* C25: a draw of a mesh with vertices issues one mesh draw exactly when
\* both extents of the vertices' bounding box are at least 1.0, and then
\* the clip rectangle is that bounding box (its origin the least x and y,
\* its size the extents) and holds every vertex; a draw of a mesh without
\* vertices issues none; no draw of a non-empty polyline panics
C25_ClipBoundsHoldVertices ==
    (last.op = "draw" /\ Len(spline) >= 1) =>
        /\ panicked = "none"
        /\ IF Len(mesh[1].vertices) = 0 THEN canvas = <<>>
           ELSE IF ~AtLeastOne(VertexBox) THEN canvas = <<>>
           ELSE /\ Len(canvas) = 1
                /\ canvas[1].draw = "mesh"
                /\ canvas[1].buffers = mesh[1]
                /\ canvas[1].clip_bounds = VertexBox
                /\ \A k \in 1..Len(mesh[1].vertices) :
                      LET v == mesh[1].vertices[k]
                          clip == canvas[1].clip_bounds
                      IN /\ ~FLt(v.x, clip.x)
                         /\ ~FLt(FAdd(clip.x, clip.width), v.x)
                         /\ ~FLt(v.y, clip.y)
                         /\ ~FLt(FAdd(clip.y, clip.height), v.y)

\* what draw_buffers does keep of C25: the mesh draw is issued exactly when
\* both extents are at least 1.0, with the buffers it was given and a clip
\* rectangle of the size of the extents, and nothing panics
C25_DrawnWhenAtLeastOne ==
    (last.op = "draw" /\ Len(spline) >= 1) =>
        /\ panicked = "none"
        /\ IF Len(mesh[1].vertices) = 0 THEN canvas = <<>>
           ELSE IF ~AtLeastOne(VertexBox) THEN canvas = <<>>
           ELSE /\ Len(canvas) = 1
                /\ canvas[1].draw = "mesh"
                /\ canvas[1].buffers = mesh[1]
                /\ canvas[1].clip_bounds.width = VertexBox.width
                /\ canvas[1].clip_bounds.height = VertexBox.height

\* a segment from (0, 0) to (3, 4) drawn: the mesh draw is issued
C25_DrawnWitness ==
    /\ Drawn
    /\ spline = <<Vec(F(0), F(0)), Vec(F(3), F(4))>>
    /\ Len(canvas) = 1
    /\ canvas[1].translation = Vec(F(3), F(2))
    /\ canvas[1].clip_bounds.width = VertexBox.width
    /\ FLt(F(3), VertexBox.width)

\* a repeated point and a single point drawn: no mesh draw is issued
C25_SkippedWitness ==
    /\ Drawn
    /\ Len(spline) = 2
    /\ spline[1] = spline[2]
    /\ Len(mesh[1].vertices) = 4
    /\ canvas = <<>>

====
